---- MODULE Spec2Model ----
(***************************************************************************)
(* Auto-Organizer (src/organizer.py): one pass over a directory that moves *)
(* every top-level regular file into the category folder chosen by its     *)
(* extension.  File names, extensions and category names are strings,      *)
(* modelled as sequences of one-character strings so that lower(),         *)
(* splitext() and the f"{base}_{n}{ext}" formatting are computed, not      *)
(* assumed.                                                                *)
(***************************************************************************)
EXTENDS Integers, Sequences, FiniteSets, TLC

VARIABLES
    root,               \* what `path` names: "dir", "file" or "absent"
    top,                \* entries directly under `path`: name -> entry
    pc,                 \* position inside organize_directory
    files_to_process,   \* the snapshot list (line 76)
    idx,                \* index of the next item of the for loop (line 87)
    moved_files_count,  \* the report counters (line 72)
    item,               \* locals of the last loop iteration (lines 88-116)
    file_extension,
    category,
    destination_file_name,
    probed,             \* the paths given to os.path.exists, in order
    console,            \* per-file messages printed during this run
    summary,            \* the lines of the summary block of this run
    start,              \* root and top when this run was called
    runs                \* number of calls of organize_directory so far

vars == <<root, top, pc, files_to_process, idx, moved_files_count, item,
          file_extension, category, destination_file_name, probed, console,
          summary, start, runs>>

-----------------------------------------------------------------------------
(* Strings *)

UpperCase == <<"A", "B", "C", "D", "E", "F", "G", "H", "I", "J", "K", "L", "M",
               "N", "O", "P", "Q", "R", "S", "T", "U", "V", "W", "X", "Y", "Z">>

LowerCase == <<"a", "b", "c", "d", "e", "f", "g", "h", "i", "j", "k", "l", "m",
               "n", "o", "p", "q", "r", "s", "t", "u", "v", "w", "x", "y", "z">>

Digits == <<"0", "1", "2", "3", "4", "5", "6", "7", "8", "9">>

\* the characters of the model in code point order, as sorted() compares them
CodePoints == <<".">> \o Digits \o UpperCase \o <<"_">> \o LowerCase

Range(s) == {s[i] : i \in DOMAIN s}

Max(S) == CHOOSE x \in S : \A y \in S : y <= x

\* str.lower() on one character
LowerChar(c) ==
    IF \E i \in DOMAIN UpperCase : UpperCase[i] = c
    THEN LowerCase[CHOOSE i \in DOMAIN UpperCase : UpperCase[i] = c]
    ELSE c

\* str.lower()
Lower(s) == [i \in DOMAIN s |-> LowerChar(s[i])]

\* str(n) of a non-negative integer, as the f-string of line 114 formats it
RECURSIVE Str(_)
Str(n) == IF n < 10 THEN <<Digits[n + 1]>>
          ELSE Str(n \div 10) \o <<Digits[(n % 10) + 1]>>

\* os.path.splitext on a name without separators: the extension starts at
\* the last dot unless only dots precede it
splitext(p) ==
    LET dots == {i \in DOMAIN p : p[i] = "."}
        dotIndex == IF dots = {} THEN 0 ELSE Max(dots)
    IN  IF dotIndex > 0 /\ \E k \in 1..(dotIndex - 1) : p[k] # "."
        THEN <<SubSeq(p, 1, dotIndex - 1), SubSeq(p, dotIndex, Len(p))>>
        ELSE <<p, <<>>>>

-----------------------------------------------------------------------------
(* The category table and the classifier *)

CATEGORIES ==
    <<
    [name |-> <<"I", "m", "a", "g", "e", "s">>,
     extensions |-> <<
        <<".", "j", "p", "g">>, <<".", "j", "p", "e", "g">>,
        <<".", "p", "n", "g">>, <<".", "g", "i", "f">>, <<".", "b", "m", "p">>,
        <<".", "t", "i", "f", "f">>, <<".", "w", "e", "b", "p">>>>],
    [name |-> <<"D", "o", "c", "u", "m", "e", "n", "t", "s">>,
     extensions |-> <<
        <<".", "p", "d", "f">>, <<".", "d", "o", "c", "x">>,
        <<".", "d", "o", "c">>, <<".", "t", "x", "t">>,
        <<".", "x", "l", "s", "x">>, <<".", "x", "l", "s">>,
        <<".", "p", "p", "t", "x">>, <<".", "p", "p", "t">>,
        <<".", "o", "d", "t">>, <<".", "r", "t", "f">>, <<".", "m", "d">>>>],
    [name |-> <<"A", "u", "d", "i", "o">>,
     extensions |-> <<
        <<".", "m", "p", "3">>, <<".", "w", "a", "v">>, <<".", "a", "a", "c">>,
        <<".", "f", "l", "a", "c">>, <<".", "o", "g", "g">>,
        <<".", "m", "4", "a">>>>],
    [name |-> <<"V", "i", "d", "e", "o">>,
     extensions |-> <<
        <<".", "m", "p", "4">>, <<".", "m", "o", "v">>, <<".", "a", "v", "i">>,
        <<".", "m", "k", "v">>, <<".", "f", "l", "v">>, <<".", "w", "m", "v">>,
        <<".", "w", "e", "b", "m">>>>],
    [name |-> <<"A", "r", "c", "h", "i", "v", "e", "s">>,
     extensions |-> <<
        <<".", "z", "i", "p">>, <<".", "r", "a", "r">>, <<".", "7", "z">>,
        <<".", "t", "a", "r">>, <<".", "g", "z">>, <<".", "b", "z", "2">>,
        <<".", "i", "s", "o">>>>],
    [name |-> <<"E", "x", "e", "c", "u", "t", "a", "b", "l", "e", "s">>,
     extensions |-> <<
        <<".", "e", "x", "e">>, <<".", "m", "s", "i">>, <<".", "d", "m", "g">>,
        <<".", "a", "p", "p">>, <<".", "b", "a", "t">>, <<".", "s", "h">>>>],
    [name |-> <<"C", "o", "d", "e">>,
     extensions |-> <<
        <<".", "p", "y">>, <<".", "j", "s">>, <<".", "h", "t", "m", "l">>,
        <<".", "c", "s", "s">>, <<".", "j", "a", "v", "a">>, <<".", "c">>,
        <<".", "c", "p", "p">>, <<".", "h">>, <<".", "c", "s">>,
        <<".", "g", "o">>, <<".", "r", "b">>, <<".", "p", "h", "p">>,
        <<".", "j", "s", "o", "n">>, <<".", "x", "m", "l">>,
        <<".", "y", "m", "l">>, <<".", "y", "a", "m", "l">>>>]
    >>

Other == <<"O", "t", "h", "e", "r">>

\* for category, extensions in CATEGORIES.items(): if ext in extensions
RECURSIVE ScanCategories(_, _)
ScanCategories(ext, i) ==
    IF i > Len(CATEGORIES) THEN Other
    ELSE IF ext \in Range(CATEGORIES[i].extensions) THEN CATEGORIES[i].name
    ELSE ScanCategories(ext, i + 1)

\* a variant of get_category: line 30 left out
get_category_case_sensitive(extension) == ScanCategories(extension, 1)

\* lines 24-34
get_category(extension) == ScanCategories(Lower(extension), 1)

\* a variant of all_categories_names: "Other" not appended
all_categories_names_without_other ==
    [i \in DOMAIN CATEGORIES |-> CATEGORIES[i].name]

\* list(CATEGORIES.keys()) + ["Other"]
all_categories_names ==
    [i \in DOMAIN CATEGORIES |-> CATEGORIES[i].name] \o <<Other>>

-----------------------------------------------------------------------------
(* The filesystem under `path`.  An entry is a regular file with its      *)
(* content or a directory with its own entries.                            *)

NoData == [origin |-> "none", folder |-> <<>>, name |-> <<>>]

FileEntry(d) == [kind |-> "file", data |-> d, ents |-> <<>>]

DirEntry(e) == [kind |-> "dir", data |-> NoData, ents |-> e]

\* os.path.exists of a name inside a directory
exists(dir, name) == name \in DOMAIN dir

\* a variant of isfile: "is not one of the category folders" in the place of
\* "is a regular file"
isfile_or_other_directory(dir, name) ==
    name \in DOMAIN dir
    /\ (dir[name].kind = "file" \/ name \notin Range(all_categories_names))

\* os.path.isfile and os.path.isdir of a name inside a directory
isfile(dir, name) == name \in DOMAIN dir /\ dir[name].kind = "file"

isdir(dir, name) == name \in DOMAIN dir /\ dir[name].kind = "dir"

Remove(dir, name) == [n \in DOMAIN dir \ {name} |-> dir[n]]

Put(dir, name, e) ==
    [n \in DOMAIN dir \cup {name} |-> IF n = name THEN e ELSE dir[n]]

\* the entries of path/<name> when that is a directory, else nothing
Folder(t, name) == IF isdir(t, name) THEN t[name].ents ELSE <<>>

\* a variant of path_is_dir: the check of lines 52-55 left out
path_is_dir_unchecked(r) == TRUE

\* os.path.isdir(path)
path_is_dir(r) == r = "dir"

\* The loop of os.makedirs(path/<category>, exist_ok=True) over names[i..].
\* A missing folder is created, together with `path` itself when that is
\* missing; an existing folder is left alone; a regular file in the way, or
\* a refusal by the system at position failAt, raises.
RECURSIVE makedirs_loop(_, _, _, _, _)
makedirs_loop(names, r, t, i, failAt) ==
    IF i > Len(names) THEN [root |-> r, top |-> t, raised |-> FALSE]
    ELSE IF r = "file" THEN [root |-> r, top |-> t, raised |-> TRUE]
    ELSE IF r = "dir" /\ exists(t, names[i])
         THEN IF isdir(t, names[i])
              THEN makedirs_loop(names, r, t, i + 1, failAt)
              ELSE [root |-> r, top |-> t, raised |-> TRUE]
    ELSE IF i = failAt THEN [root |-> r, top |-> t, raised |-> TRUE]
    ELSE makedirs_loop(names, "dir", Put(t, names[i], DirEntry(<<>>)),
                       i + 1, failAt)

\* a variant of ListFiles: line 76 with the filter by name of line 92 in the
\* place of os.path.isfile
ListAllButCategories(t) == DOMAIN t \ Range(all_categories_names)

\* [item for item in os.listdir(path) if os.path.isfile(...)]
ListFiles(t) == {n \in DOMAIN t : isfile(t, n)}

\* os.listdir gives the names in an arbitrary order
Orders(S) ==
    {s \in [1..Cardinality(S) -> S] : \A i, j \in DOMAIN s : i # j => s[i] # s[j]}

\* f"{base_name}_{counter}{file_extension}"
Renamed(base_name, counter, extension) ==
    base_name \o <<"_">> \o Str(counter) \o extension

\* The while loop of lines 112-116: probe, rename, count.
RECURSIVE CollisionLoop(_, _, _, _, _, _)
CollisionLoop(folder, base_name, extension, name, counter, seen) ==
    IF exists(folder, name)
    THEN CollisionLoop(folder, base_name, extension,
                       Renamed(base_name, counter, extension), counter + 1,
                       Append(seen, name))
    ELSE [destination_file_name |-> name, counter |-> counter,
          probed |-> Append(seen, name)]

\* a variant of ResolveDestination: the loop replaced by a single `if`
ResolveDestinationOnce(folder, name) ==
    LET sp == splitext(name)
    IN  IF exists(folder, name)
        THEN [destination_file_name |-> Renamed(sp[1], 1, sp[2]), counter |-> 2,
              probed |-> <<name>>]
        ELSE [destination_file_name |-> name, counter |-> 1, probed |-> <<name>>]

\* a variant of ResolveDestination: the counter starting at 0
ResolveDestinationFromZero(folder, name) ==
    LET sp == splitext(name)
    IN  CollisionLoop(folder, sp[1], sp[2], name, 0, <<>>)

\* lines 104-116: the destination name of `name` inside `folder`
ResolveDestination(folder, name) ==
    LET sp == splitext(name)
    IN  CollisionLoop(folder, sp[1], sp[2], name, 1, <<>>)

\* what shutil.move does to a copy it makes: the entry arrives with the
\* content of the original and is told apart from it
CopyOf(e) == [e EXCEPT !.data.origin = "copy"]

\* a variant of shutil_move: a copy that leaves the source in place
shutil_copy(t, src, cat, dst, fault) ==
    IF fault \in {"shutil.Error", "OSError", "Exception"}
    THEN [top |-> t, raised |-> fault]
    ELSE IF ~isdir(t, cat) THEN [top |-> t, raised |-> "OSError"]
    ELSE [top |-> Put(t, cat, DirEntry(Put(t[cat].ents, dst, CopyOf(t[src])))),
          raised |-> IF fault = "unlink" THEN "OSError" ELSE "none"]

\* shutil.move(path/src, path/cat/dst) under `fault`:
\*   "none"    os.rename succeeds: the entry leaves the top level; it replaces
\*             a regular file at the destination, and goes inside a directory
\*             at the destination unless its name is taken there;
\*   "unlink"  os.rename is refused, the copy to the destination is made, and
\*             os.unlink of the source raises: the source stays;
\*   others    the named exception is raised and nothing has changed.
\* A missing destination folder makes os.rename and the copy raise OSError.
shutil_move(t, src, cat, dst, fault) ==
    IF fault \in {"shutil.Error", "OSError", "Exception"}
    THEN [top |-> t, raised |-> fault]
    ELSE IF ~isdir(t, cat) THEN [top |-> t, raised |-> "OSError"]
    ELSE IF src = cat THEN [top |-> t, raised |-> "shutil.Error"]
    ELSE LET folder == t[cat].ents
             inside == isdir(folder, dst)
             arrived == IF fault = "unlink" THEN CopyOf(t[src]) ELSE t[src]
             after == IF fault = "unlink" THEN t ELSE Remove(t, src)
         IN  IF inside /\ exists(folder[dst].ents, src)
             THEN [top |-> t, raised |-> "shutil.Error"]
             ELSE [top |-> Put(after, cat,
                               DirEntry(IF inside
                                        THEN Put(folder, dst,
                                                 DirEntry(Put(folder[dst].ents,
                                                              src, arrived)))
                                        ELSE Put(folder, dst, arrived))),
                   raised |-> IF fault = "unlink" THEN "OSError" ELSE "none"]

\* sorted(moved_files_count.keys()): strings compare by code point
CodePoint ==
    [c \in Range(CodePoints) |-> CHOOSE i \in DOMAIN CodePoints : CodePoints[i] = c]

RECURSIVE StrLess(_, _)
StrLess(a, b) ==
    IF a = <<>> THEN b # <<>>
    ELSE IF b = <<>> THEN FALSE
    ELSE IF Head(a) = Head(b) THEN StrLess(Tail(a), Tail(b))
    ELSE CodePoint[Head(a)] < CodePoint[Head(b)]

RECURSIVE sorted(_)
sorted(S) ==
    IF S = {} THEN <<>>
    ELSE LET m == CHOOSE x \in S : \A y \in S \ {x} : StrLess(x, y)
         IN  <<m>> \o sorted(S \ {m})

\* line 144: the keys of moved_files_count are all_categories_names (line 72)
sorted_categories == sorted(Range(all_categories_names))

\* lines 140-154: one line per category with a positive count, in sorted
\* order, or the statement that nothing was moved
SummaryOf(counts) ==
    LET names == sorted_categories
        lines == SelectSeq([i \in DOMAIN names |->
                               [category |-> names[i], count |-> counts[names[i]]]],
                           LAMBDA l : l.count > 0)
    IN  [lines |-> lines, none |-> lines = <<>>]

NoSummary == [lines |-> <<>>, none |-> FALSE]

-----------------------------------------------------------------------------
(* Bounds and the directories the calls start from.  The content of a     *)
(* file is the record of where it was first seen, so that no two files of  *)
(* a starting directory have the same content.                             *)

MaxFiles == 2       \* regular files at the top level before the first run
MaxPre == 2         \* entries already inside category folders
MaxExtLen == 4      \* length of the extensions given to the classifier alone

Documents == CATEGORIES[2].name

\* candidate top-level file names: listed extensions in lower and in upper
\* case, a name that a rename of another produces, a leading dot with no
\* extension, and a regular file that carries a category's name
TopPool == {<<"p", ".", "J", "P", "G">>,
            <<"a", ".", "t", "x", "t">>,
            <<"a", "_", "1", ".", "t", "x", "t">>,
            <<"a", ".", "T", "X", "T">>,
            <<".", "r", "c">>,
            <<"O", "t", "h", "e", "r">>}

\* candidate entries already present inside category folders
PrePool ==
    {[folder |-> Documents, kind |-> "file",
      name |-> <<"a", ".", "t", "x", "t">>],
     [folder |-> Documents, kind |-> "file",
      name |-> <<"a", "_", "1", ".", "t", "x", "t">>],
     [folder |-> Documents, kind |-> "dir",
      name |-> <<"a", ".", "T", "X", "T">>],
     [folder |-> Other, kind |-> "file",
      name |-> <<".", "r", "c">>]}

\* a top-level directory that is no category, named like a document, holding a file
SubDirName == <<"d", ".", "t", "x", "t">>

SubDir ==
    DirEntry(<<"a", ".", "t", "x", "t">> :>
                 FileEntry([origin |-> "sub", folder |-> SubDirName,
                            name |-> <<"a", ".", "t", "x", "t">>]))

TopData(n) == [origin |-> "top", folder |-> <<>>, name |-> n]

PreEntry(p) ==
    IF p.kind = "dir" THEN DirEntry(<<>>)
    ELSE FileEntry([origin |-> "pre", folder |-> p.folder, name |-> p.name])

InitialTop(files, pre) ==
    LET folders == {p.folder : p \in pre}
        names == files \cup folders \cup {SubDirName}
    IN  [n \in names |->
            IF n \in folders
            THEN DirEntry([m \in {p.name : p \in {q \in pre : q.folder = n}} |->
                              PreEntry(CHOOSE p \in pre : p.folder = n /\ p.name = m)])
            ELSE IF n \in files THEN FileEntry(TopData(n))
            ELSE SubDir]

Fresh ==
    /\ pc = "start"
    /\ files_to_process = <<>>
    /\ idx = 1
    /\ moved_files_count = <<>>
    /\ item = <<>>
    /\ file_extension = <<>>
    /\ category = <<>>
    /\ destination_file_name = <<>>
    /\ probed = <<>>
    /\ console = <<>>
    /\ summary = NoSummary

\* `path` is missing, is a regular file, or is a directory that holds some
\* files, the other directory, and the category folders that have entries
\* (the second call finds all the folders in place)
Init ==
    /\ Fresh
    /\ runs = 1
    /\ \/ root \in {"file", "absent"} /\ top = <<>>
       \/ /\ root = "dir"
          /\ \E files \in SUBSET TopPool, pre \in SUBSET PrePool :
                /\ Cardinality(files) <= MaxFiles
                /\ Cardinality(pre) <= MaxPre
                /\ files \cap {p.folder : p \in pre} = {}
                /\ top = InitialTop(files, pre)
    /\ start = [root |-> root, top |-> top]

-----------------------------------------------------------------------------
(* organize_directory *)

\* what can go wrong in one call of shutil.move: nothing, the removal of
\* the source after a copy, or an exception of one of the three kinds that
\* the except clauses tell apart
Faults == {"none", "unlink", "shutil.Error", "OSError", "Exception"}

\* a variant of handled: without the clause of line 136
handled_os_errors_only(exc) == exc \in {"shutil.Error", "OSError"}

\* the except clauses of lines 130-138
handled(exc) == exc \in {"shutil.Error", "OSError", "Exception"}

\* a variant of CountAfter: the increment placed outside the try block
CountAfterAlways(counts, cat, exc) ==
    IF cat \in DOMAIN counts THEN [counts EXCEPT ![cat] = @ + 1] ELSE counts

\* line 129, reached only when nothing was raised before it
CountAfter(counts, cat, exc) ==
    IF exc = "none" /\ cat \in DOMAIN counts
    THEN [counts EXCEPT ![cat] = @ + 1]
    ELSE counts

\* The positions of a call: "start", "provision", "enumerate", "process", and
\* its ends: "invalid" (the return of line 55), "done" (the summary was
\* printed) and "makedirs_raised", "listdir_raised", "move_raised" (an
\* exception left organize_directory).

\* lines 51-55
Validate ==
    /\ pc = "start"
    /\ pc' = IF path_is_dir(root) THEN "provision" ELSE "invalid"
    /\ UNCHANGED <<root, top, files_to_process, idx, moved_files_count, item,
                   file_extension, category, destination_file_name, probed,
                   console, summary, start, runs>>

\* lines 57-67
Provision ==
    /\ pc = "provision"
    /\ \E failAt \in 0..Len(all_categories_names) :
          LET r == makedirs_loop(all_categories_names, root, top, 1, failAt)
          IN  /\ root' = r.root
              /\ top' = r.top
              /\ pc' = IF r.raised THEN "makedirs_raised" ELSE "enumerate"
    /\ UNCHANGED <<files_to_process, idx, moved_files_count, item,
                   file_extension, category, destination_file_name, probed,
                   console, summary, start, runs>>

\* lines 70-85: the counters, the snapshot, and the early return
Enumerate ==
    /\ pc = "enumerate"
    /\ moved_files_count' = [c \in Range(all_categories_names) |-> 0]
    /\ \/ /\ pc' = "listdir_raised"   \* os.listdir raises
          /\ UNCHANGED <<files_to_process, summary>>
       \/ \E order \in Orders(ListFiles(top)) :
             /\ files_to_process' = order
             /\ pc' = IF order = <<>> THEN "done" ELSE "process"
             /\ summary' = IF order = <<>> THEN [lines |-> <<>>, none |-> TRUE]
                           ELSE NoSummary
    /\ UNCHANGED <<root, top, idx, item, file_extension, category,
                   destination_file_name, probed, console, start, runs>>

\* lines 87-138 for one item, and lines 140-154 after the last one
ProcessFile ==
    /\ pc = "process"
    /\ idx <= Len(files_to_process)
    /\ LET it == files_to_process[idx]
           last == idx = Len(files_to_process)
       IN  /\ item' = it
           /\ idx' = idx + 1
           /\ IF (isdir(top, it) /\ it \in Range(all_categories_names))
                 \/ ~isfile(top, it)
              THEN /\ pc' = IF last THEN "done" ELSE "process"
                   /\ summary' = IF last THEN SummaryOf(moved_files_count)
                                 ELSE NoSummary
                   /\ UNCHANGED <<top, moved_files_count, file_extension,
                                  category, destination_file_name, probed,
                                  console>>
              ELSE LET ext == splitext(it)[2]
                       cat == get_category(ext)
                       res == ResolveDestination(Folder(top, cat), it)
                       dst == res.destination_file_name
                   IN  /\ file_extension' = ext
                       /\ category' = cat
                       /\ destination_file_name' = dst
                       /\ probed' = res.probed
                       /\ \E fault \in Faults :
                             LET mv == shutil_move(top, it, cat, dst, fault)
                                 exc == IF mv.raised # "none" THEN mv.raised
                                        ELSE IF cat \notin DOMAIN moved_files_count
                                             THEN "Exception"
                                        ELSE "none"
                                 counts == CountAfter(moved_files_count, cat, exc)
                                 msg == [kind |-> IF exc # "none" THEN "error"
                                                  ELSE IF it # dst THEN "renamed"
                                                  ELSE "moved",
                                         item |-> it, category |-> cat,
                                         destination |-> dst]
                             IN  /\ top' = mv.top
                                 /\ moved_files_count' = counts
                                 /\ IF exc = "none" \/ handled(exc)
                                    THEN /\ console' = Append(console, msg)
                                         /\ pc' = IF last THEN "done" ELSE "process"
                                         /\ summary' = IF last THEN SummaryOf(counts)
                                                       ELSE NoSummary
                                    ELSE /\ pc' = "move_raised"
                                         /\ UNCHANGED <<console, summary>>
    /\ UNCHANGED <<root, files_to_process, start, runs>>

\* a run that returned from the summary with no failed move
Complete ==
    /\ pc = "done"
    /\ \A i \in DOMAIN console : console[i].kind # "error"

\* organize_directory is called a second time, on the directory as a
\* complete first call left it
Rerun ==
    /\ Complete
    /\ runs = 1
    /\ runs' = runs + 1
    /\ start' = [root |-> root, top |-> top]
    /\ pc' = "start"
    /\ files_to_process' = <<>>
    /\ idx' = 1
    /\ moved_files_count' = <<>>
    /\ item' = <<>>
    /\ file_extension' = <<>>
    /\ category' = <<>>
    /\ destination_file_name' = <<>>
    /\ probed' = <<>>
    /\ console' = <<>>
    /\ summary' = NoSummary
    /\ UNCHANGED <<root, top>>

Next == Validate \/ Provision \/ Enumerate \/ ProcessFile \/ Rerun

Spec == Init /\ [][Next]_vars

-----------------------------------------------------------------------------
(* The classifier alone, on every string over a small alphabet *)

ExtAlphabet == {".", "j", "J", "p", "P", "g", "G", "c"}

Extensions == UNION {[1..n -> ExtAlphabet] : n \in 0..MaxExtLen}

InitClassify ==
    /\ pc = "classify"
    /\ file_extension \in Extensions
    /\ category = <<>>
    /\ root = "dir"
    /\ top = <<>>
    /\ files_to_process = <<>>
    /\ idx = 1
    /\ moved_files_count = <<>>
    /\ item = <<>>
    /\ destination_file_name = <<>>
    /\ probed = <<>>
    /\ console = <<>>
    /\ summary = NoSummary
    /\ start = [root |-> root, top |-> top]
    /\ runs = 1

\* line 99
Classify ==
    /\ pc = "classify"
    /\ category' = get_category(file_extension)
    /\ pc' = "classified"
    /\ UNCHANGED <<root, top, files_to_process, idx, moved_files_count, item,
                   file_extension, destination_file_name, probed, console,
                   summary, start, runs>>

NextClassify == Classify

SpecClassify == InitClassify /\ [][NextClassify]_vars

-----------------------------------------------------------------------------
(* Vocabulary of the properties *)

EveryCategory == {CATEGORIES[i].name : i \in DOMAIN CATEGORIES} \cup {Other}

\* the regular files directly under the directory when the call was made
StartFiles == {n \in DOMAIN start.top : start.top[n].kind = "file"}

\* the content of top-level file n at the start of the call
StartData(n) == start.top[n].data

\* path/c is a directory in t
IsFolder(t, c) == c \in DOMAIN t /\ t[c].kind = "dir"

\* something exists at path/c/n in t
ExistsAt(t, c, n) == IsFolder(t, c) /\ n \in DOMAIN t[c].ents

\* the places inside category folders that hold a regular file of content d
PlacesOf(d) ==
    UNION {{<<c, m>> : m \in {x \in DOMAIN top[c].ents :
                                 /\ top[c].ents[x].kind = "file"
                                 /\ top[c].ents[x].data = d}} :
           c \in {k \in EveryCategory : IsFolder(top, k)}}

Ended == pc \in {"done", "invalid", "makedirs_raised", "listdir_raised", "move_raised"}

Aborted == pc \in {"invalid", "makedirs_raised", "listdir_raised", "move_raised"}

Failed(n) == \E i \in DOMAIN console : console[i].item = n /\ console[i].kind = "error"

Succeeded(n) == \E i \in DOMAIN console : console[i].item = n /\ console[i].kind # "error"

\* {base}_{n}{extension} of a file name
Rewritten(name, n) ==
    splitext(name)[1] \o <<"_">> \o Str(n) \o splitext(name)[2]

-----------------------------------------------------------------------------
(* C1: no file that is inside a category folder when organize_directory is *)
(* called is overwritten or removed: at every moment of the run it is      *)
(* still at the same path with the same content, whatever the top-level    *)
(* files are called and in whatever order they are processed.              *)
C1_NoDestinationOverwritten ==
    \A c \in EveryCategory :
        IsFolder(start.top, c) =>
            \A n \in DOMAIN start.top[c].ents :
                start.top[c].ents[n].kind = "file" =>
                    /\ ExistsAt(top, c, n)
                    /\ top[c].ents[n] = start.top[c].ents[n]

\* a top-level file whose name was taken in its folder has been moved in
\* under another name, and the run has ended
C1_Witness ==
    /\ pc = "done"
    /\ \E i \in DOMAIN console :
          /\ console[i].kind = "renamed"
          /\ ExistsAt(start.top, console[i].category, console[i].item)
          /\ ExistsAt(top, console[i].category, console[i].destination)

(* C2 as stated: when a call has ended without being aborted, every file   *)
(* that was at the top level is in exactly one category folder, the one    *)
(* get_category gives, and no longer at the top level.                     *)
C2_Original ==
    pc = "done" =>
        \A n \in StartFiles :
            /\ n \notin DOMAIN top
            /\ Cardinality(PlacesOf(StartData(n))) = 1
            /\ \A p \in PlacesOf(StartData(n)) :
                  p[1] = get_category(splitext(n)[2])

(* C2, amended: when a call has ended, every file that was at the top      *)
(* level either is in exactly one category folder, the one get_category    *)
(* gives for its extension, and no longer at the top level, or is still    *)
(* in place with its content and in no category folder; it stays in place  *)
(* only if its own move failed or the run was aborted before any move.     *)
C2_EveryFileMovedOrFailed ==
    Ended =>
        \A n \in StartFiles :
            \/ /\ n \notin DOMAIN top
               /\ Cardinality(PlacesOf(StartData(n))) = 1
               /\ \A p \in PlacesOf(StartData(n)) :
                     p[1] = get_category(splitext(n)[2])
               /\ Succeeded(n)
            \/ /\ n \in DOMAIN top
               /\ top[n] = start.top[n]
               /\ PlacesOf(StartData(n)) = {}
               /\ ~Succeeded(n)
               /\ Failed(n) \/ (Aborted /\ console = <<>>)

\* a run that ended with one file moved and another left in place by a
\* failed move
C2_Witness ==
    /\ pc = "done"
    /\ \E n, m \in StartFiles :
          /\ Succeeded(n) /\ n \notin DOMAIN top
          /\ Failed(m) /\ m \in DOMAIN top

(* C3: when the path is missing or is not a directory the call ends at the *)
(* error return: no folder is created, nothing is moved or printed about   *)
(* a file, and the path and everything under it are as they were.          *)
C3_InvalidPathLeavesEverything ==
    start.root # "dir" =>
        /\ pc \in {"start", "invalid"}
        /\ root = start.root
        /\ top = start.top
        /\ console = <<>>
        /\ files_to_process = <<>>

C3_Witness == pc = "invalid" /\ root = "absent" /\ top = <<>>

(* C4: a failed move never ends the run: an exception leaves the call only *)
(* before the loop has started, a run inside the loop always has a next    *)
(* item to go to, and a run that is done has handled every item of the     *)
(* snapshot in order, failed moves included, and has printed its summary.  *)
C4_FailureNeverAborts ==
    /\ pc \in {"makedirs_raised", "listdir_raised", "move_raised"} =>
          item = <<>> /\ console = <<>>
    /\ (\E i \in DOMAIN console : console[i].kind = "error") =>
          pc \in {"process", "done"}
    /\ pc = "process" => idx <= Len(files_to_process)
    /\ pc = "done" =>
          /\ Len(console) = Len(files_to_process)
          /\ \A i \in DOMAIN console : console[i].item = files_to_process[i]
          /\ summary # NoSummary

\* the first move failed, a later file was still moved, and the summary
\* counts it
C4_Witness ==
    /\ pc = "done"
    /\ Len(console) >= 2
    /\ console[1].kind = "error"
    /\ console[2].kind # "error"
    /\ summary.lines # <<>>

(* C5: in every iteration the destination is the file's own name when      *)
(* nothing exists at directory/category/name; otherwise it is              *)
(* {base}_{n}{extension} for the smallest n >= 1 at which nothing exists,  *)
(* and the paths probed are the name and then n = 1, 2, ..., each once.    *)
C5_Step ==
    (pc = "process" /\ idx' = idx + 1) =>
        LET name == files_to_process[idx]
            taken(x) == ExistsAt(top, category', x)
            most == IF IsFolder(top, category')
                    THEN Cardinality(DOMAIN top[category'].ents) + 1 ELSE 1
        IN  IF ~taken(name)
            THEN destination_file_name' = name /\ probed' = <<name>>
            ELSE \E n \in 1..most :
                    /\ ~taken(Rewritten(name, n))
                    /\ \A k \in 1..(n - 1) : taken(Rewritten(name, k))
                    /\ destination_file_name' = Rewritten(name, n)
                    /\ probed' = <<name>> \o [k \in 1..n |-> Rewritten(name, k)]

C5_CollisionResolution == [][C5_Step]_vars

\* the name and _1 were taken and the file went to _2
C5_Witness ==
    /\ Len(probed) = 3
    /\ destination_file_name = Rewritten(item, 2)
    /\ ExistsAt(top, category, Rewritten(item, 1))
    /\ ExistsAt(top, category, destination_file_name)

(* C6: once the counters exist they have one entry per category, 'Other'   *)
(* included, and each equals the number of snapshot files that have left   *)
(* the top level and are inside that category's folder: one per successful *)
(* move, none for a failed one.                                            *)
C6_CountersMatchMoves ==
    pc \in {"process", "done"} =>
        /\ DOMAIN moved_files_count = EveryCategory
        /\ \A c \in EveryCategory :
              moved_files_count[c] =
                  Cardinality({n \in StartFiles :
                                  /\ n \notin DOMAIN top
                                  /\ \E p \in PlacesOf(StartData(n)) : p[1] = c})

\* a run that moved one file into Documents and failed to move another one
\* that belongs there
C6_Witness ==
    /\ pc = "done"
    /\ moved_files_count[Documents] = 1
    /\ \E i \in DOMAIN console :
          console[i].kind = "error" /\ console[i].category = Documents

(* C7: on a valid directory every category of the table and 'Other' is a   *)
(* folder directly under the directory from the end of provisioning on:    *)
(* before the snapshot, during the moves and when the run is done, even    *)
(* with nothing moved into it; and when every folder was already there     *)
(* provisioning raises nothing.                                            *)
C7_FoldersProvisioned ==
    /\ pc \in {"enumerate", "process", "done", "listdir_raised"} =>
          \A c \in EveryCategory : IsFolder(top, c)
    /\ (\A c \in EveryCategory : IsFolder(start.top, c)) =>
          pc # "makedirs_raised"

\* a done run that found 'Other' in place, had to create another folder,
\* and moved nothing into 'Other'
C7_Witness ==
    /\ pc = "done"
    /\ IsFolder(start.top, Other)
    /\ \E c \in EveryCategory : ~IsFolder(start.top, c)
    /\ moved_files_count[Other] = 0
    /\ \E c \in EveryCategory : moved_files_count[c] > 0

(* C8: nothing is listed or moved before provisioning is over; from then   *)
(* on the list to process holds exactly the regular files that were        *)
(* directly under the directory, each once, whatever has been moved since; *)
(* and the items handled so far are the first ones of that list, so no     *)
(* file is handled twice.                                                  *)
C8_SnapshotFixed ==
    /\ pc \in {"start", "provision", "enumerate"} =>
          files_to_process = <<>> /\ console = <<>> /\ item = <<>>
    /\ pc \in {"process", "done"} =>
          /\ Range(files_to_process) = StartFiles
          /\ Len(files_to_process) = Cardinality(StartFiles)
          /\ Len(console) = idx - 1
          /\ \A i \in DOMAIN console : console[i].item = files_to_process[i]
          /\ \A i, j \in DOMAIN console :
                console[i].item = console[j].item => i = j
          /\ \A n \in StartFiles :
                Cardinality(PlacesOf(StartData(n))) <= 1

\* one file of two has been moved away and the list still names both
C8_Witness ==
    /\ pc = "process"
    /\ idx = 2
    /\ Len(files_to_process) = 2
    /\ console[1].kind # "error"
    /\ files_to_process[1] \notin DOMAIN top

(* C9: a top-level directory is never a source: it stays where it is, a    *)
(* directory, with everything it held; a directory that is no category     *)
(* folder is left exactly as it was; every item handled was a regular file *)
(* of the top level; and the second call, made right after a call that     *)
(* moved every file it listed, moves nothing and leaves the directory as   *)
(* it found it.                                                            *)
C9_DirectoriesNeverSources ==
    /\ \A d \in DOMAIN start.top :
          start.top[d].kind = "dir" =>
              /\ IsFolder(top, d)
              /\ \A m \in DOMAIN start.top[d].ents :
                    ExistsAt(top, d, m) /\ top[d].ents[m] = start.top[d].ents[m]
              /\ d \notin EveryCategory => top[d] = start.top[d]
    /\ item # <<>> => item \in StartFiles
    /\ \A i \in DOMAIN console : console[i].item \in StartFiles
    /\ runs = 2 =>
          /\ console = <<>>
          /\ top = start.top
          /\ pc = "done" => summary.none /\ \A c \in EveryCategory : moved_files_count[c] = 0

\* the second call is done, after a first call that moved a file, with the
\* other directory still at the top level
C9_Witness ==
    /\ runs = 2
    /\ pc = "done"
    /\ SubDirName \in DOMAIN top
    /\ \E c \in EveryCategory :
          \E m \in DOMAIN top[c].ents : top[c].ents[m].data.origin = "top"

\* two strings that differ at most in the case of their letters
SameIgnoringCase(a, b) ==
    /\ Len(a) = Len(b)
    /\ \A i \in DOMAIN a :
          \/ a[i] = b[i]
          \/ \E k \in DOMAIN UpperCase :
                {a[i], b[i]} = {UpperCase[k], LowerCase[k]}

\* the categories whose extension list holds e in some mix of cases
Listing(e) ==
    {i \in DOMAIN CATEGORIES :
        \E x \in Range(CATEGORIES[i].extensions) : SameIgnoringCase(x, e)}

UpperOf(e) ==
    [i \in DOMAIN e |->
        IF \E k \in DOMAIN LowerCase : LowerCase[k] = e[i]
        THEN UpperCase[CHOOSE k \in DOMAIN LowerCase : LowerCase[k] = e[i]]
        ELSE e[i]]

(* C10: get_category answers for every extension: the one category whose   *)
(* list holds the extension up to case, the same for its upper-case        *)
(* variant, and 'Other' exactly when no list holds it, the empty           *)
(* extension included.                                                     *)
C10_ClassifierCaseInsensitive ==
    pc = "classified" =>
        /\ Cardinality(Listing(file_extension)) <= 1
        /\ \A i \in Listing(file_extension) : category = CATEGORIES[i].name
        /\ Listing(file_extension) = {} <=> category = Other
        /\ get_category(UpperOf(file_extension)) = category

\* '.JpG' has been classified as an image
C10_Witness ==
    /\ pc = "classified"
    /\ file_extension = <<".", "J", "p", "G">>
    /\ category = CATEGORIES[1].name
====
